---- MODULE Spec2Model ----
(***************************************************************************)
(* Model of the log pipeline of src/Логи_ДВА_интерфейс20.py:               *)
(* parse_log_entry / process_logs / assign_departments_to_logs /           *)
(* get_month_range / prepare_chart_data / prepare_employee_data and the    *)
(* filtering and aggregation loops of main.                                *)
(*                                                                         *)
(* A Python str is a sequence of atoms.  An atom is a one-character string *)
(* (a digit, a delimiter, a letter) or a word of letters and underscores,  *)
(* so that strip / replace / split on delimiters act on atoms exactly as   *)
(* they act on the characters of the joined string.  A Python dict is an   *)
(* association list <<key, value>> in insertion order.                     *)
(***************************************************************************)
EXTENDS Integers, Sequences, FiniteSets, TLC

VARIABLES
    pc,                    \* position in the run
    raw_logs,              \* load_logs(): the raw lines
    parsed_logs,           \* the records of process_logs / assign_departments_to_logs
    idx,                   \* index of the loop in progress
    start_date, end_date,  \* the selected range
    selected_dept,         \* the selectbox
    filtered_logs,         \* main: the in-range records
    all_available_months,  \* get_month_range(start_date, end_date)
    dept_matrix,           \* main: unit matrix
    employee_matrix,       \* main: employee matrix
    chart_df, chart_freq,  \* prepare_chart_data(...)
    employee_df, employee_freq  \* prepare_employee_data(...)

vars == <<pc, raw_logs, parsed_logs, idx, start_date, end_date, selected_dept,
          filtered_logs, all_available_months, dept_matrix, employee_matrix,
          chart_df, chart_freq, employee_df, employee_freq>>

(***************************************************************************)
(* Python str operations on atom sequences                                 *)
(***************************************************************************)

\* Python's None
None == [none |-> TRUE]

\* the digits 0-9 and their values (str.isdigit and int agree on them)
DigitVal ==
    ("0" :> 0) @@ ("1" :> 1) @@ ("2" :> 2) @@ ("3" :> 3) @@ ("4" :> 4) @@
    ("5" :> 5) @@ ("6" :> 6) @@ ("7" :> 7) @@ ("8" :> 8) @@ ("9" :> 9)

\* characters for which str.isdigit() is True and int() raises ValueError:
\* the superscripts U+00B2, U+00B3, U+00B9 (the ones of Latin-1, the
\* characters a string of this module can hold)
SuperscriptDigits == {"²", "³", "¹"}

\* whitespace removed by str.strip() and matched by \s of strptime: space,
\* U+0009..U+000D, U+001C..U+001F, U+0085, U+00A0 (the ones of Latin-1)
Whitespace ==
    {" ", "\t", "\n", "", "\f", "\r", "", "", "", "",
     "", " "}

\* s[a..b] as Python's s[a-1:b]
Slice(s, a, b) == IF a > b THEN <<>> ELSE SubSeq(s, a, b)

\* s.startswith(pat, at-1)
MatchAt(s, pat, at) ==
    /\ at >= 1
    /\ at + Len(pat) - 1 <= Len(s)
    /\ \A k \in 1..Len(pat) : s[at + k - 1] = pat[k]

\* s.find(pat, from-1) + 1: the first index >= from where pat occurs, 0 if none
Find(s, pat, from) ==
    LET hits == {k \in from..(Len(s) - Len(pat) + 1) : MatchAt(s, pat, k)} IN
    IF hits = {} THEN 0
    ELSE CHOOSE k \in hits : \A j \in hits : k <= j

\* pat in s
Contains(s, pat) == Find(s, pat, 1) # 0

\* s.replace(pat, ""): the non-overlapping occurrences, left to right, one pass
RECURSIVE Replace(_, _)
Replace(s, pat) ==
    LET at == Find(s, pat, 1) IN
    IF at = 0 THEN s
    ELSE Slice(s, 1, at - 1) \o Replace(Slice(s, at + Len(pat), Len(s)), pat)

\* s.split(pat): the list of pieces
RECURSIVE Split(_, _)
Split(s, pat) ==
    LET at == Find(s, pat, 1) IN
    IF at = 0 THEN <<s>>
    ELSE <<Slice(s, 1, at - 1)>> \o Split(Slice(s, at + Len(pat), Len(s)), pat)

\* s.split(pat, 1): one piece when pat is absent, otherwise two
SplitOnce(s, pat) ==
    LET at == Find(s, pat, 1) IN
    IF at = 0 THEN <<s>>
    ELSE <<Slice(s, 1, at - 1), Slice(s, at + Len(pat), Len(s))>>

\* s.lstrip(chars)
LStrip(s, chars) ==
    IF \A k \in 1..Len(s) : s[k] \in chars THEN <<>>
    ELSE LET first == CHOOSE k \in 1..Len(s) :
                          s[k] \notin chars /\ \A j \in 1..(k - 1) : s[j] \in chars
         IN SubSeq(s, first, Len(s))

\* s.rstrip(chars)
RStrip(s, chars) ==
    IF \A k \in 1..Len(s) : s[k] \in chars THEN <<>>
    ELSE LET last == CHOOSE k \in 1..Len(s) :
                         s[k] \notin chars /\ \A j \in (k + 1)..Len(s) : s[j] \in chars
         IN SubSeq(s, 1, last)

\* s.strip(chars)
Strip(s, chars) == RStrip(LStrip(s, chars), chars)

(***************************************************************************)
(* Python dict operations on association lists                             *)
(***************************************************************************)

\* k in d
DictHas(d, k) == \E j \in 1..Len(d) : d[j][1] = k

\* d.get(k, default)
DictGet(d, k, default) ==
    IF DictHas(d, k)
    THEN d[CHOOSE j \in 1..Len(d) : d[j][1] = k][2]
    ELSE default

\* d[k] = v: in place for a present key, at the end for a new one
DictSet(d, k, v) ==
    IF DictHas(d, k)
    THEN [j \in 1..Len(d) |-> IF d[j][1] = k THEN <<k, v>> ELSE d[j]]
    ELSE Append(d, <<k, v>>)

\* set(d.keys())
DictKeys(d) == {d[j][1] : j \in 1..Len(d)}

(***************************************************************************)
(* datetime                                                                *)
(***************************************************************************)

\* calendar: leap years
IsLeap(y) == (y % 4 = 0 /\ y % 100 # 0) \/ y % 400 = 0

\* calendar: days of month m of year y
DaysInMonth(y, m) ==
    IF m = 2 THEN (IF IsLeap(y) THEN 29 ELSE 28)
    ELSE IF m \in {4, 6, 9, 11} THEN 30 ELSE 31

\* date1 <= date2 on <<year, month, day>>
DateLE(a, b) ==
    \/ a[1] < b[1]
    \/ a[1] = b[1] /\ a[2] < b[2]
    \/ a[1] = b[1] /\ a[2] = b[2] /\ a[3] <= b[3]

\* date1 < date2
DateLT(a, b) == DateLE(a, b) /\ a # b

IsDigit(s, k) == k >= 1 /\ k <= Len(s) /\ s[k] \in DOMAIN DigitVal

Dig(s, k) == DigitVal[s[k]]

\* One directive of the format at index k: <<value, next index>>, or <<>> when
\* none of the directive's alternatives matches there.
\* %Y: \d\d\d\d
ParseY(s, k) ==
    IF IsDigit(s, k) /\ IsDigit(s, k + 1) /\ IsDigit(s, k + 2) /\ IsDigit(s, k + 3)
    THEN <<Dig(s, k) * 1000 + Dig(s, k + 1) * 100 + Dig(s, k + 2) * 10 + Dig(s, k + 3),
           k + 4>>
    ELSE <<>>

\* two digits at k forming a value in lo..hi whose first digit is in firsts
TwoDigits(s, k, firsts, lo, hi) ==
    /\ IsDigit(s, k) /\ IsDigit(s, k + 1)
    /\ Dig(s, k) \in firsts
    /\ Dig(s, k) * 10 + Dig(s, k + 1) \in lo..hi

\* %m: 1[0-2]|0[1-9]|[1-9]
Parse_m(s, k) ==
    IF TwoDigits(s, k, {1}, 10, 12) \/ TwoDigits(s, k, {0}, 1, 9)
    THEN <<Dig(s, k) * 10 + Dig(s, k + 1), k + 2>>
    ELSE IF IsDigit(s, k) /\ Dig(s, k) \in 1..9 THEN <<Dig(s, k), k + 1>>
    ELSE <<>>

\* %d: 3[0-1]|[1-2]\d|0[1-9]|[1-9]| [1-9]
Parse_d(s, k) ==
    IF TwoDigits(s, k, {3}, 30, 31) \/ TwoDigits(s, k, {1, 2}, 10, 29)
       \/ TwoDigits(s, k, {0}, 1, 9)
    THEN <<Dig(s, k) * 10 + Dig(s, k + 1), k + 2>>
    ELSE IF IsDigit(s, k) /\ Dig(s, k) \in 1..9 THEN <<Dig(s, k), k + 1>>
    ELSE IF k <= Len(s) /\ s[k] = " " /\ IsDigit(s, k + 1) /\ Dig(s, k + 1) \in 1..9
    THEN <<Dig(s, k + 1), k + 2>>
    ELSE <<>>

\* %H: 2[0-3]|[0-1]\d|\d
ParseH(s, k) ==
    IF TwoDigits(s, k, {2}, 20, 23) \/ TwoDigits(s, k, {0, 1}, 0, 19)
    THEN <<Dig(s, k) * 10 + Dig(s, k + 1), k + 2>>
    ELSE IF IsDigit(s, k) THEN <<Dig(s, k), k + 1>>
    ELSE <<>>

\* %M: [0-5]\d|\d
ParseM(s, k) ==
    IF TwoDigits(s, k, 0..5, 0, 59)
    THEN <<Dig(s, k) * 10 + Dig(s, k + 1), k + 2>>
    ELSE IF IsDigit(s, k) THEN <<Dig(s, k), k + 1>>
    ELSE <<>>

\* %S: 6[0-1]|[0-5]\d|\d
ParseS(s, k) ==
    IF TwoDigits(s, k, {6}, 60, 61) \/ TwoDigits(s, k, 0..5, 0, 59)
    THEN <<Dig(s, k) * 10 + Dig(s, k + 1), k + 2>>
    ELSE IF IsDigit(s, k) THEN <<Dig(s, k), k + 1>>
    ELSE <<>>

\* the literal character c of the format at index k
Lit(s, k, c) == k >= 1 /\ k <= Len(s) /\ s[k] = c

\* \s+ at index k: the index after the run of whitespace, k when there is none
SkipSpaces(s, k) ==
    LET stops == {j \in k..Len(s) : s[j] \notin Whitespace} IN
    IF stops # {} THEN CHOOSE j \in stops : \A i \in stops : j <= i
    ELSE IF k > Len(s) THEN k ELSE Len(s) + 1

\* the outcome of a call that raised ValueError
ValueError == <<>>

\* datetime.datetime.strptime(s, '%Y-%m-%d %H:%M:%S'):
\* <<year, month, day, hour, minute, second>>, or ValueError
\* (no match, unconverted data, or a field datetime() rejects).
Strptime(s) ==
    LET Y == ParseY(s, 1) IN
    IF Y = <<>> \/ ~Lit(s, 5, "-") THEN ValueError ELSE
    LET m == Parse_m(s, 6) IN
    IF m = <<>> \/ ~Lit(s, m[2], "-") THEN ValueError ELSE
    LET d == Parse_d(s, m[2] + 1) IN
    IF d = <<>> THEN ValueError ELSE
    LET h0 == SkipSpaces(s, d[2]) IN
    IF h0 = d[2] THEN ValueError ELSE
    LET H == ParseH(s, h0) IN
    IF H = <<>> \/ ~Lit(s, H[2], ":") THEN ValueError ELSE
    LET M == ParseM(s, H[2] + 1) IN
    IF M = <<>> \/ ~Lit(s, M[2], ":") THEN ValueError ELSE
    LET S == ParseS(s, M[2] + 1) IN
    IF S = <<>> \/ S[2] # Len(s) + 1 THEN ValueError
    ELSE IF Y[1] < 1 \/ d[1] > DaysInMonth(Y[1], m[1]) \/ S[1] > 59 THEN ValueError
    ELSE <<Y[1], m[1], d[1], H[1], M[1], S[1]>>

\* datetime.date(): the calendar date of a timestamp
DateOf(ts) == <<ts[1], ts[2], ts[3]>>

(***************************************************************************)
(* parse_log_entry, process_logs                                           *)
(***************************************************************************)

\* the string 'unknown'
Unknown == <<"unknown">>

\* the loop over data_part.split(", '") that fills fields
RECURSIVE ParseFields(_, _)
ParseFields(items, fields) ==
    IF items = <<>> THEN fields
    ELSE
        LET item == Head(items) IN
        IF ~Contains(item, <<":">>) THEN ParseFields(Tail(items), fields)
        ELSE
            LET kv == SplitOnce(item, <<":">>) IN
            ParseFields(Tail(items),
                        DictSet(fields,
                                Strip(kv[1], {" ", "'"}),
                                Strip(Strip(kv[2], Whitespace), {"'"})))

\* parse_log_entry that reads the whole time part, fraction included, as the
\* timestamp
parse_log_entry_whole_time_part(log_line) ==
    LET line == Replace(Replace(Strip(log_line, Whitespace), <<"(", "'">>),
                        <<"'", ")">>)
        parts == SplitOnce(line, <<" ", "-", " ">>)
    IN
    IF Len(parts) # 2 THEN None
    ELSE
        LET timestamp == Strptime(parts[1])
            fields == ParseFields(Split(parts[2], <<",", " ", "'">>), <<>>)
        IN
        IF timestamp = ValueError THEN None
        ELSE [timestamp |-> timestamp,
              client_ip |-> DictGet(fields, <<"Client_IP">>, Unknown),
              client_hostname |-> DictGet(fields, <<"Client_Hostname">>, Unknown),
              server |-> DictGet(fields, <<"Server">>, Unknown),
              event |-> DictGet(fields, <<"Event">>, Unknown),
              project |-> DictGet(fields, <<"Project">>, Unknown),
              login |-> DictGet(fields, <<"Login">>, Unknown),
              org_unit |-> DictGet(fields, <<"Org_uroven_", "5">>, Unknown),
              fullname |-> DictGet(fields, <<"FIO">>, Unknown)]

\* parse_log_entry(log_line): the entry, or None when the try block raised.
\* The Cyrillic keys 'Логин', 'Орг_уровень_5', 'ФИО' are written in Latin
\* letters: Login, Org_uroven_5, FIO.
parse_log_entry(log_line) ==
    LET line == Replace(Replace(Strip(log_line, Whitespace), <<"(", "'">>),
                        <<"'", ")">>)
        parts == SplitOnce(line, <<" ", "-", " ">>)
    IN
    IF Len(parts) # 2 THEN None
    ELSE
        LET time_part == parts[1]
            data_part == parts[2]
            timestamp == Strptime(Split(time_part, <<",">>)[1])
            fields == ParseFields(Split(data_part, <<",", " ", "'">>), <<>>)
        IN
        IF timestamp = ValueError THEN None
        ELSE [timestamp |-> timestamp,
              client_ip |-> DictGet(fields, <<"Client_IP">>, Unknown),
              client_hostname |-> DictGet(fields, <<"Client_Hostname">>, Unknown),
              server |-> DictGet(fields, <<"Server">>, Unknown),
              event |-> DictGet(fields, <<"Event">>, Unknown),
              project |-> DictGet(fields, <<"Project">>, Unknown),
              login |-> DictGet(fields, <<"Login">>, Unknown),
              org_unit |-> DictGet(fields, <<"Org_uroven_", "5">>, Unknown),
              fullname |-> DictGet(fields, <<"FIO">>, Unknown)]

\* entry['date'] = entry['timestamp'].date()
WithDate(entry) ==
    [f \in DOMAIN entry \cup {"date"} |->
        IF f = "date" THEN DateOf(entry.timestamp) ELSE entry[f]]

\* process_logs, one iteration of the loop over raw_logs
ProcessLogsStep ==
    /\ pc = "process_logs"
    /\ idx <= Len(raw_logs)
    /\ LET entry == parse_log_entry(raw_logs[idx]) IN
       parsed_logs' = IF entry # None
                      THEN Append(parsed_logs, WithDate(entry))
                      ELSE parsed_logs
    /\ idx' = idx + 1
    /\ UNCHANGED <<pc, raw_logs, start_date, end_date, selected_dept,
                   filtered_logs, all_available_months, dept_matrix,
                   employee_matrix, chart_df, chart_freq, employee_df,
                   employee_freq>>

\* process_logs: return parsed
ProcessLogsReturn ==
    /\ pc = "process_logs"
    /\ idx > Len(raw_logs)
    /\ pc' = "assign_departments"
    /\ idx' = 1
    /\ UNCHANGED <<raw_logs, parsed_logs, start_date, end_date, selected_dept,
                   filtered_logs, all_available_months, dept_matrix,
                   employee_matrix, chart_df, chart_freq, employee_df,
                   employee_freq>>

(***************************************************************************)
(* get_departments, assign_departments_to_logs                             *)
(***************************************************************************)

\* get_departments(): the fixed list ("Управление 1" .. "Управление 6")
get_departments ==
    <<"Upravlenie 1", "Upravlenie 2", "Upravlenie 3",
      "Upravlenie 4", "Upravlenie 5", "Upravlenie 6">>

\* octet.isdigit(): non-empty, every character a digit
IsDigitStr(octet) ==
    /\ octet # <<>>
    /\ \A k \in 1..Len(octet) : octet[k] \in DOMAIN DigitVal \cup SuperscriptDigits

\* int(): the most digits of a string it converts (CPython 3.11, the
\* int max str digits limit)
MaxStrDigits == 4300

\* int(s) raises ValueError: the characters int() does not read as a number,
\* or more digits than MaxStrDigits
IntRaises(s) ==
    \/ s = <<>>
    \/ \E k \in 1..Len(s) : s[k] \notin DOMAIN DigitVal
    \/ Len(s) > MaxStrDigits

\* int(s) of a string of the digits 0-9
RECURSIVE IntOf(_)
IntOf(s) ==
    IF s = <<>> THEN 0
    ELSE IntOf(Slice(s, 1, Len(s) - 1)) * 10 + DigitVal[s[Len(s)]]

\* (b ** e) % n
RECURSIVE PowMod(_, _, _)
PowMod(b, e, n) ==
    IF e = 0 THEN 1 % n
    ELSE LET h == PowMod(b, e \div 2, n) IN
         IF e % 2 = 0 THEN (h * h) % n ELSE (((h * h) % n) * (b % n)) % n

\* int(s) % n of a string of the digits 0-9, for a number of any size: the
\* remainder of the two halves of s put together
RECURSIVE IntMod(_, _)
IntMod(s, n) ==
    IF s = <<>> THEN 0
    ELSE IF Len(s) = 1 THEN DigitVal[s[1]] % n
    ELSE LET h == Len(s) \div 2
             right == SubSeq(s, h + 1, Len(s))
         IN (IntMod(SubSeq(s, 1, h), n) * PowMod(10, Len(right), n)
             + IntMod(right, n)) % n

\* '.'.join(parts)
RECURSIVE Join(_)
Join(parts) ==
    IF parts = <<>> THEN <<>>
    ELSE IF Len(parts) = 1 THEN parts[1]
    ELSE parts[1] \o <<".">> \o Join(Tail(parts))

\* s.count('.')
CountDots(s) == Cardinality({k \in 1..Len(s) : s[k] = "."})

\* log['department'] = dept
WithDepartment(log, dept) ==
    [f \in DOMAIN log \cup {"department"} |->
        IF f = "department" THEN dept ELSE log[f]]

\* DepartmentOf that keeps every numeric token instead of the first four
DepartmentOfAllOctets(log, departments) ==
    LET ip == log.client_ip
        octets == SelectSeq(Split(ip, <<".">>), IsDigitStr)
        clean_ip == Join(octets)
        pieces == Split(clean_ip, <<".">>)
        last == pieces[Len(pieces)]
    IN
    IF CountDots(clean_ip) = 3
    THEN IF IntRaises(last)
         THEN departments[1]
         ELSE departments[IntMod(last, Len(departments)) + 1]
    ELSE departments[(0 % Len(departments)) + 1]

\* the body of the loop of assign_departments_to_logs: the department of a log
DepartmentOf(log, departments) ==
    LET ip == log.client_ip
        octets == SelectSeq(Split(ip, <<".">>), IsDigitStr)
        clean_ip == Join(Slice(octets, 1, IF Len(octets) < 4 THEN Len(octets) ELSE 4))
        pieces == Split(clean_ip, <<".">>)
        last == pieces[Len(pieces)]
    IN
    IF CountDots(clean_ip) = 3
    THEN IF IntRaises(last)
         THEN departments[1]                                   \* except:
         ELSE departments[IntMod(last, Len(departments)) + 1]
    ELSE departments[(0 % Len(departments)) + 1]

\* assign_departments_to_logs(logs, departments)
assign_departments_to_logs(logs, departments) ==
    [k \in 1..Len(logs) |-> WithDepartment(logs[k], DepartmentOf(logs[k], departments))]

\* main: parsed_logs = assign_departments_to_logs(parsed_logs, departments)
AssignDepartments ==
    /\ pc = "assign_departments"
    /\ parsed_logs' = assign_departments_to_logs(parsed_logs, get_departments)
    /\ pc' = "select_range"
    /\ UNCHANGED <<raw_logs, idx, start_date, end_date, selected_dept,
                   filtered_logs, all_available_months, dept_matrix,
                   employee_matrix, chart_df, chart_freq, employee_df,
                   employee_freq>>

(***************************************************************************)
(* dateutil.relativedelta, get_month_range                                 *)
(***************************************************************************)

\* date + relativedelta(months=n): the month moves, the day is cut to the
\* length of the month reached
AddMonths(date, n) ==
    LET t == date[1] * 12 + (date[2] - 1) + n
        y == t \div 12
        m == (t % 12) + 1
    IN <<y, m, IF date[3] < DaysInMonth(y, m) THEN date[3] ELSE DaysInMonth(y, m)>>

\* relativedelta(dt1, dt2): the loop that moves the month count toward zero
\* until dt2 + months does not pass dt1
RECURSIVE AdjustMonths(_, _, _)
AdjustMonths(dt1, dt2, months) ==
    LET dtm == AddMonths(dt2, months) IN
    IF DateLT(dt1, dt2)
    THEN IF DateLT(dtm, dt1) THEN AdjustMonths(dt1, dt2, months + 1) ELSE months
    ELSE IF DateLT(dt1, dtm) THEN AdjustMonths(dt1, dt2, months - 1) ELSE months

\* relativedelta(dt1, dt2): its fields years and months (_set_months)
relativedelta(dt1, dt2) ==
    LET months == AdjustMonths(dt1, dt2,
                               (dt1[1] - dt2[1]) * 12 + (dt1[2] - dt2[2]))
        sign == IF months < 0 THEN -1 ELSE 1
    IN
    IF months * sign > 11
    THEN [years |-> ((months * sign) \div 12) * sign,
          months |-> ((months * sign) % 12) * sign]
    ELSE [years |-> 0, months |-> months]

\* sorted(list(set(months)), key=lambda x: (x[0], x[1]))
RECURSIVE SortedMonths(_)
SortedMonths(set) ==
    IF set = {} THEN <<>>
    ELSE
        LET least == CHOOSE a \in set :
                        \A b \in set : a[1] < b[1] \/ (a[1] = b[1] /\ a[2] <= b[2])
        IN <<least>> \o SortedMonths(set \ {least})

\* MonthLoop that stops before the month of end
RECURSIVE MonthLoopBeforeEnd(_, _, _)
MonthLoopBeforeEnd(current, last, months) ==
    IF DateLT(current, last)
    THEN MonthLoopBeforeEnd(AddMonths(current, 1), last,
                            Append(months, <<current[1], current[2]>>))
    ELSE months

\* get_month_range: the while loop
RECURSIVE MonthLoop(_, _, _)
MonthLoop(current, last, months) ==
    IF DateLE(current, last)
    THEN MonthLoop(AddMonths(current, 1), last,
                   Append(months, <<current[1], current[2]>>))
    ELSE months

\* get_month_range(start, end)
get_month_range(start, end) ==
    LET months == MonthLoop(<<start[1], start[2], 1>>, <<end[1], end[2], 1>>, <<>>)
    IN SortedMonths({months[k] : k \in 1..Len(months)})

(***************************************************************************)
(* prepare_chart_data, prepare_employee_data                               *)
(***************************************************************************)

\* f"{month:02d}", "%m"
Pad2(m) == IF m < 10 THEN "0" \o ToString(m) ELSE ToString(m)

\* date.strftime(date_format) for "%Y-%m" and "%Y"
Strftime(date, date_format) ==
    IF date_format = "%Y-%m"
    THEN ToString(date[1]) \o "-" \o Pad2(date[2])
    ELSE ToString(date[1])

\* f"{year}-{month:02d}"
FormatYearMonth(year, month) == ToString(year) \o "-" \o Pad2(month)

\* ChartFreq that is monthly below 12 months only
ChartFreqBelow12(start, end) ==
    LET delta == relativedelta(end, start)
        total_months == delta.years * 12 + delta.months
    IN IF total_months < 12 THEN "month" ELSE "year"

\* prepare_chart_data: freq
ChartFreq(start, end) ==
    LET delta == relativedelta(end, start)
        total_months == delta.years * 12 + delta.months
    IN IF total_months <= 12 THEN "month" ELSE "year"

\* ChartPeriod that breaks the whole of end's year out by month
ChartPeriodWholeYear(date, freq, end) ==
    LET date_format == IF freq = "month" THEN "%Y-%m" ELSE "%Y" IN
    IF freq = "year"
    THEN IF date[1] = end[1]
         THEN FormatYearMonth(date[1], date[2])
         ELSE Strftime(date, date_format)
    ELSE Strftime(date, date_format)

\* prepare_chart_data: the period of one log
ChartPeriod(date, freq, end) ==
    LET date_format == IF freq = "month" THEN "%Y-%m" ELSE "%Y" IN
    IF freq = "year"
    THEN IF date[1] = end[1] /\ date[2] <= end[2]
         THEN FormatYearMonth(date[1], date[2])
         ELSE Strftime(date, date_format)
    ELSE Strftime(date, date_format)

\* data[dept][period] += 1 on defaultdict(lambda: defaultdict(int))
Increment2(data, k1, k2) ==
    LET inner == DictGet(data, k1, <<>>) IN
    DictSet(data, k1, DictSet(inner, k2, DictGet(inner, k2, 0) + 1))

\* prepare_chart_data: the loop over filtered_logs
RECURSIVE ChartCount(_, _, _, _)
ChartCount(logs, freq, end, data) ==
    IF logs = <<>> THEN data
    ELSE ChartCount(Tail(logs), freq, end,
                    Increment2(data, Head(logs).department,
                               ChartPeriod(Head(logs).date, freq, end)))

\* the rows of one key: a row per item of its dict
RowsOf(key, items) ==
    [k \in 1..Len(items) |->
        [key |-> key, Period |-> items[k][1], Visits |-> items[k][2]]]

\* prepare_chart_data: the loop over departments that builds df_data
RECURSIVE ChartRows(_, _)
ChartRows(departments, data) ==
    IF departments = <<>> THEN <<>>
    ELSE RowsOf(Head(departments), DictGet(data, Head(departments), <<>>))
         \o ChartRows(Tail(departments), data)

\* prepare_chart_data(filtered_logs, start_date, end_date): <<df_data, freq>>
prepare_chart_data(logs, start, end) ==
    LET freq == ChartFreq(start, end) IN
    <<ChartRows(get_departments, ChartCount(logs, freq, end, <<>>)), freq>>

\* prepare_employee_data: freq
EmployeeFreq(start, end) ==
    LET delta == relativedelta(end, start)
        total_months == delta.years * 12 + delta.months
    IN IF total_months <= 12 THEN "month" ELSE "year"

\* prepare_employee_data: the period of one (year, month) of an employee
EmployeePeriod(year, month, freq, end) ==
    LET date == <<year, month, 1>>
        date_format == IF freq = "month" THEN "%Y-%m" ELSE "%Y"
    IN
    IF freq = "year" /\ date[1] = end[1] /\ date[2] <= end[2]
    THEN FormatYearMonth(year, month)
    ELSE Strftime(date, date_format)

\* prepare_employee_data: the rows of one employee, one per (year, month)
EmployeeRowsOf(employee, stats, freq, end) ==
    [k \in 1..Len(stats.months) |->
        [key |-> employee,
         Period |-> EmployeePeriod(stats.months[k][1][1], stats.months[k][1][2],
                                   freq, end),
         Visits |-> stats.months[k][2]]]

\* prepare_employee_data: the loop over employee_logs.items()
RECURSIVE EmployeeRows(_, _, _)
EmployeeRows(items, freq, end) ==
    IF items = <<>> THEN <<>>
    ELSE EmployeeRowsOf(Head(items)[1], Head(items)[2], freq, end)
         \o EmployeeRows(Tail(items), freq, end)

\* prepare_employee_data(employee_logs, start_date, end_date): <<df_data, freq>>
prepare_employee_data(employee_logs, start, end) ==
    LET freq == EmployeeFreq(start, end) IN
    <<EmployeeRows(employee_logs, freq, end), freq>>

(***************************************************************************)
(* main: filtering and the unit and employee matrices                      *)
(***************************************************************************)

\* InRange with the end of the range excluded
InRangeBeforeEnd(logs, start, end) ==
    SelectSeq(logs, LAMBDA log : DateLE(start, log.date) /\ DateLT(log.date, end))

\* [log for log in logs if start_date <= log['date'] <= end_date]
InRange(logs, start, end) ==
    SelectSeq(logs, LAMBDA log : DateLE(start, log.date) /\ DateLE(log.date, end))

\* NewDeptMatrix with rows only for the units that have records, as a
\* defaultdict would give
NewDeptMatrixLazy(departments) == <<>>

\* {dept: {'total': 0, 'months': defaultdict(int)} for dept in departments}
NewDeptMatrix(departments) ==
    [k \in 1..Len(departments) |-> <<departments[k], [total |-> 0, months |-> <<>>]>>]

\* matrix[key]['total'] += 1; matrix[key]['months'][year_month] += 1
CountVisit(matrix, key, year_month) ==
    LET stats == DictGet(matrix, key, [total |-> 0, months |-> <<>>]) IN
    DictSet(matrix, key,
            [total |-> stats.total + 1,
             months |-> DictSet(stats.months, year_month,
                                DictGet(stats.months, year_month, 0) + 1)])

\* the body of the loop that fills dept_matrix; a KeyError leaves it as it is
DeptMatrixStep(matrix, log) ==
    IF "department" \in DOMAIN log /\ DictHas(matrix, log.department)
    THEN CountVisit(matrix, log.department, <<log.date[1], log.date[2]>>)
    ELSE matrix

\* [log for log in filtered_logs if log['department'] == selected_dept]
DeptLogs(logs, dept) == SelectSeq(logs, LAMBDA log : log.department = dept)

\* EmployeeMatrixOf that counts the records named 'unknown' too
RECURSIVE EmployeeMatrixWithUnknown(_, _)
EmployeeMatrixWithUnknown(dept_logs, matrix) ==
    IF dept_logs = <<>> THEN matrix
    ELSE EmployeeMatrixWithUnknown(Tail(dept_logs),
                                   CountVisit(matrix, Head(dept_logs).fullname,
                                              <<Head(dept_logs).date[1],
                                                Head(dept_logs).date[2]>>))

\* the loop that fills employee_matrix (a defaultdict: rows appear on first use)
RECURSIVE EmployeeMatrixOf(_, _)
EmployeeMatrixOf(dept_logs, matrix) ==
    IF dept_logs = <<>> THEN matrix
    ELSE
        LET log == Head(dept_logs) IN
        IF log.fullname = Unknown
        THEN EmployeeMatrixOf(Tail(dept_logs), matrix)
        ELSE EmployeeMatrixOf(Tail(dept_logs),
                              CountVisit(matrix, log.fullname,
                                         <<log.date[1], log.date[2]>>))

\* the first entry of the selectbox ("Все управления")
AllDepartments == "Vse upravleniya"

(***************************************************************************)
(* Inputs: log lines as the portal writes them, dates, addresses           *)
(***************************************************************************)

\* most lines of a batch
MaxLines == 3

\* most lines of a batch of the parsing runs
MaxParseLines == 2

\* most dot-separated tokens of an address
MaxOctets == 5

\* years of the date ranges, from 2023
NumYears == 3

Years == 2023..(2023 + NumYears - 1)

DigitChar == <<"0", "1", "2", "3", "4", "5", "6", "7", "8", "9">>

\* n as two and as four digits
D2(n) == <<DigitChar[(n \div 10) + 1], DigitChar[(n % 10) + 1]>>

D4(n) == D2(n \div 100) \o D2(n % 100)

\* the text "YYYY-MM-DD 09:00:00" of a date
Stamp(date) ==
    D4(date[1]) \o <<"-">> \o D2(date[2]) \o <<"-">> \o D2(date[3])
    \o <<" ", "0", "9", ":", "0", "0", ":", "0", "0">>

\* the text Client_IP:'<ip>', 'FIO:'<name>'  (no FIO field for name = <<>>)
DataText(ip, name) ==
    <<"Client_IP", ":", "'">> \o ip \o <<"'">>
    \o (IF name = <<>> THEN <<>>
        ELSE <<",", " ", "'", "FIO", ":", "'">> \o name \o <<"'">>)

\* a line of the log file: "<stamp>,123 - ('<data>')"
LogLine(date, ip, name) ==
    Stamp(date) \o <<",", "1", "2", "3">> \o <<" ", "-", " ">>
    \o <<"(", "'">> \o DataText(ip, name) \o <<"'", ")">>

IP7 == <<"1", "0", ".", "0", ".", "0", ".", "7">>

IP8 == <<"1", "0", ".", "0", ".", "0", ".", "8">>

\* the lines of the runs of main: two units, two employees, a record with
\* no name, two years, and a line that is no log entry
Lines ==
    { LogLine(<<2023, 1, 15>>, IP7, <<"Ivanov">>),
      LogLine(<<2023, 2, 10>>, IP7, <<"Ivanov">>),
      LogLine(<<2024, 3, 5>>, IP7, <<>>),
      LogLine(<<2024, 3, 5>>, IP8, <<"Petrov">>),
      <<"x">> }

\* the dates of the date_input of the runs of main
RangeDates == {<<2023, 1, 1>>, <<2023, 2, 10>>, <<2024, 3, 5>>, <<2024, 3, 31>>}

\* the dates of the URL query parameters of the runs of main
QueryDates == {<<2023, 2, 10>>}

\* the batches of at most n lines of a set of lines
Batches(lines, n) == UNION {[1..k -> lines] : k \in 0..n}

\* time parts: a timestamp, one with a fraction, one with short fields and a
\* tab before the hour, and a date that does not exist
TimeTexts ==
    { Stamp(<<2023, 1, 15>>),
      Stamp(<<2024, 2, 29>>) \o <<",", "1", "2", "3">>,
      <<"2", "0", "2", "4", "-", "1", "-", "5", "\t", "9", ":", "0", ":", "7">>,
      Stamp(<<2023, 2, 30>>) }

\* what stands between the time part and the data part
SepTexts ==
    { <<" ", "-", " ">>, <<" ", "-">>, <<" ", "-", "(", "'", " ">> }

\* the lines of the parsing runs: every time part with every separator before
\* a data part without fields and with the separator " - " before a data part
\* with fields, a line wrapped in (' '), a line that ends with the separator
\* and a line between a tab and a newline
ParseLines ==
    { t \o sep \o <<"x">> : t \in TimeTexts, sep \in SepTexts }
    \cup { t \o <<" ", "-", " ">> \o DataText(IP7, <<"Ivanov">>) : t \in TimeTexts }
    \cup { <<"(", "'">> \o Stamp(<<2023, 1, 15>>) \o <<" ", "-", " ">>
           \o DataText(IP8, <<"Petrov">>) \o <<"'", ")">>,
           Stamp(<<2023, 1, 15>>) \o <<" ", "-", " ">>,
           <<"\t">> \o Stamp(<<2024, 2, 29>>) \o <<" ", "-", " ", "x", "\n">> }

\* the tokens of the addresses of the attribution runs
Octets ==
    { <<>>, <<"7">>, <<"1", "0">>, <<"0">>, <<"unknown">>, <<"²">>, <<"³">> }

\* a token of n digits 5
Fives(n) == [k \in 1..n |-> "5"]

\* the addresses: at most MaxOctets tokens joined by dots, and two whose
\* fourth token has as many digits as int() converts and one digit more
IpTexts ==
    { Join(p) : p \in Batches(Octets, MaxOctets) }
    \cup { Join(<<<<"1", "0">>, <<"0">>, <<"0">>, Fives(n)>>) :
              n \in {MaxStrDigits, MaxStrDigits + 1} }

\* a record as process_logs returns it
Entry(date, ip, name) ==
    WithDate([timestamp |-> <<date[1], date[2], date[3], 9, 0, 0>>,
              client_ip |-> ip,
              client_hostname |-> Unknown, server |-> Unknown,
              event |-> Unknown, project |-> Unknown, login |-> Unknown,
              org_unit |-> Unknown, fullname |-> name])

\* the days of a month the ranges use: the first, the 15th, the 28th, the last
Days(y, m) == {1, 15, 28, DaysInMonth(y, m)}

Dates == { dt \in Years \X (1..12) \X (1..31) : dt[3] \in Days(dt[1], dt[2]) }

\* main: today, default_start = today - relativedelta(months=3)
Today == <<2024, 3, 31>>

DefaultStart == AddMonths(Today, -3)

(***************************************************************************)
(* main                                                                    *)
(***************************************************************************)

\* a state at position at of main in which nothing after filtered_logs is
\* computed yet
Begin(at, lines, logs, start, end, in_range, employees) ==
    /\ pc = at
    /\ raw_logs = lines
    /\ parsed_logs = logs
    /\ idx = 1
    /\ start_date = start
    /\ end_date = end
    /\ selected_dept = AllDepartments
    /\ filtered_logs = in_range
    /\ all_available_months = <<>>
    /\ dept_matrix = <<>>
    /\ employee_matrix = employees
    /\ chart_df = <<>>
    /\ chart_freq = ""
    /\ employee_df = <<>>
    /\ employee_freq = ""

\* what date_input returns: its value (start_date, end_date) left as it is, two
\* dates, or one date while the second is not picked yet
DateInput(start, end) ==
    {<<start, end>>}
    \cup {<<s, e>> : s \in RangeDates, e \in RangeDates}
    \cup {<<s>> : s \in RangeDates}

\* start_date, end_date after date_input: the two dates of selected_range,
\* else (the warning, and the except as well) the dates main had
SelectedDates(selected_range, start, end) ==
    IF Len(selected_range) = 2 THEN selected_range ELSE <<start, end>>

\* main: date_input, filtered_logs, get_month_range, the empty dept_matrix
FilterLogs ==
    /\ pc = "select_range"
    /\ \E selected_range \in DateInput(start_date, end_date) :
        LET dates == SelectedDates(selected_range, start_date, end_date) IN
        /\ start_date' = dates[1]
        /\ end_date' = dates[2]
        /\ filtered_logs' = InRange(parsed_logs, dates[1], dates[2])
        /\ all_available_months' = get_month_range(dates[1], dates[2])
    /\ dept_matrix' = NewDeptMatrix(get_departments)
    /\ idx' = 1
    /\ pc' = "aggregate"
    /\ UNCHANGED <<raw_logs, parsed_logs, selected_dept, employee_matrix,
                   chart_df, chart_freq, employee_df, employee_freq>>

\* main: one iteration of the loop that fills dept_matrix
AggregateStep ==
    /\ pc = "aggregate"
    /\ idx <= Len(filtered_logs)
    /\ dept_matrix' = DeptMatrixStep(dept_matrix, filtered_logs[idx])
    /\ idx' = idx + 1
    /\ UNCHANGED <<pc, raw_logs, parsed_logs, start_date, end_date, selected_dept,
                   filtered_logs, all_available_months, employee_matrix,
                   chart_df, chart_freq, employee_df, employee_freq>>

\* main: the loop is over
AggregateDone ==
    /\ pc = "aggregate"
    /\ idx > Len(filtered_logs)
    /\ pc' = "selectbox"
    /\ UNCHANGED <<raw_logs, parsed_logs, idx, start_date, end_date, selected_dept,
                   filtered_logs, all_available_months, dept_matrix,
                   employee_matrix, chart_df, chart_freq, employee_df,
                   employee_freq>>

\* main: "Все управления" is selected: the table and the chart of the units
ShowAllDepartments ==
    /\ pc = "selectbox"
    /\ selected_dept' = AllDepartments
    /\ LET r == prepare_chart_data(filtered_logs, start_date, end_date) IN
       /\ chart_df' = r[1]
       /\ chart_freq' = r[2]
    /\ pc' = "done"
    /\ UNCHANGED <<raw_logs, parsed_logs, idx, start_date, end_date,
                   filtered_logs, all_available_months, dept_matrix,
                   employee_matrix, employee_df, employee_freq>>

\* main: a unit is selected: employee_matrix and, unless it is empty, the
\* table and the chart of its employees
ShowDepartment ==
    /\ pc = "selectbox"
    /\ \E dept \in {get_departments[k] : k \in 1..Len(get_departments)} :
        /\ selected_dept' = dept
        /\ employee_matrix' = EmployeeMatrixOf(DeptLogs(filtered_logs, dept), <<>>)
    /\ IF employee_matrix' # <<>>
       THEN LET r == prepare_employee_data(employee_matrix', start_date, end_date) IN
            /\ employee_df' = r[1]
            /\ employee_freq' = r[2]
       ELSE UNCHANGED <<employee_df, employee_freq>>
    /\ pc' = "done"
    /\ UNCHANGED <<raw_logs, parsed_logs, idx, start_date, end_date,
                   filtered_logs, all_available_months, dept_matrix,
                   chart_df, chart_freq>>

\* main: start_date, end_date before date_input: the defaults, or the dates
\* of the URL query parameters start_date, end_date
QueryStart == {DefaultStart} \cup QueryDates

QueryEnd == {Today} \cup QueryDates

\* a run of main over a batch of lines
Init ==
    \E lines \in Batches(Lines, MaxLines), start \in QueryStart, end \in QueryEnd :
        Begin("process_logs", lines, <<>>, start, end, <<>>, <<>>)

Next ==
    \/ ProcessLogsStep
    \/ ProcessLogsReturn
    \/ AssignDepartments
    \/ FilterLogs
    \/ AggregateStep
    \/ AggregateDone
    \/ ShowAllDepartments
    \/ ShowDepartment

Spec == Init /\ [][Next]_vars

(***************************************************************************)
(* process_logs on its own                                                 *)
(***************************************************************************)

InitParse ==
    \E lines \in Batches(ParseLines, MaxParseLines) :
        Begin("process_logs", lines, <<>>, DefaultStart, Today, <<>>, <<>>)

NextParse == ProcessLogsStep \/ ProcessLogsReturn

SpecParse == InitParse /\ [][NextParse]_vars

(***************************************************************************)
(* assign_departments_to_logs on its own                                   *)
(***************************************************************************)

InitAssign ==
    \E ip \in IpTexts :
        Begin("assign_departments", <<>>, <<Entry(<<2023, 1, 15>>, ip, Unknown)>>,
              DefaultStart, Today, <<>>, <<>>)

NextAssign == AssignDepartments

SpecAssign == InitAssign /\ [][NextAssign]_vars

(***************************************************************************)
(* get_month_range and the granularity of the two projections on their own *)
(***************************************************************************)

\* get_month_range(start_date, end_date)
MonthRange ==
    /\ pc = "month_range"
    /\ all_available_months' = get_month_range(start_date, end_date)
    /\ pc' = "chart"
    /\ UNCHANGED <<raw_logs, parsed_logs, idx, start_date, end_date, selected_dept,
                   filtered_logs, dept_matrix, employee_matrix, chart_df,
                   chart_freq, employee_df, employee_freq>>

\* prepare_chart_data(filtered_logs, start_date, end_date)
PrepareChart ==
    /\ pc = "chart"
    /\ LET r == prepare_chart_data(filtered_logs, start_date, end_date) IN
       /\ chart_df' = r[1]
       /\ chart_freq' = r[2]
    /\ pc' = "employee"
    /\ UNCHANGED <<raw_logs, parsed_logs, idx, start_date, end_date, selected_dept,
                   filtered_logs, all_available_months, dept_matrix,
                   employee_matrix, employee_df, employee_freq>>

\* prepare_employee_data(employee_matrix, start_date, end_date)
PrepareEmployee ==
    /\ pc = "employee"
    /\ LET r == prepare_employee_data(employee_matrix, start_date, end_date) IN
       /\ employee_df' = r[1]
       /\ employee_freq' = r[2]
    /\ pc' = "done"
    /\ UNCHANGED <<raw_logs, parsed_logs, idx, start_date, end_date, selected_dept,
                   filtered_logs, all_available_months, dept_matrix,
                   employee_matrix, chart_df, chart_freq>>

InitPeriod ==
    \E s \in Dates, e \in Dates : Begin("month_range", <<>>, <<>>, s, e, <<>>, <<>>)

NextPeriod == MonthRange \/ PrepareChart \/ PrepareEmployee

SpecPeriod == InitPeriod /\ [][NextPeriod]_vars

(***************************************************************************)
(* the period labels of the two projections on their own                   *)
(***************************************************************************)

\* the second unit's record of employee Ivanov on a date
RecordOn(date) ==
    WithDepartment(Entry(date, IP7, <<"Ivanov">>), get_departments[2])

InitLabel ==
    \E m \in 1..12, e \in {dt \in Dates : dt[3] \in {1, 28}},
       d \in {dt \in Dates : dt[3] = 1} :
        Begin("chart", <<>>, <<>>, <<2023, m, 15>>, e, <<RecordOn(d)>>,
              EmployeeMatrixOf(<<RecordOn(d)>>, <<>>))

NextLabel == PrepareChart \/ PrepareEmployee

SpecLabel == InitLabel /\ [][NextLabel]_vars

(***************************************************************************)
(* Properties                                                              *)
(***************************************************************************)

\* the set of the units
Units == {get_departments[k] : k \in 1..Len(get_departments)}

\* the sum of the values of a dict of counts
RECURSIVE SumValues(_)
SumValues(items) ==
    IF items = <<>> THEN 0 ELSE Head(items)[2] + SumValues(Tail(items))

\* the sum of the totals of the rows of a matrix
RECURSIVE SumTotals(_)
SumTotals(matrix) ==
    IF matrix = <<>> THEN 0 ELSE Head(matrix)[2].total + SumTotals(Tail(matrix))

\* the keys of a dict are distinct
DistinctKeys(d) == Cardinality(DictKeys(d)) = Len(d)

(* ------------------------------ C3 ------------------------------------- *)

\* the index the attribution rule gives an address: the numeric tokens between
\* the dots, the fourth of them as an integer modulo the number of units when
\* there are at least four (so that exactly four are kept), 0 otherwise and
\* when the fourth cannot be read as an integer
UnitIndex(ip) ==
    LET numeric == SelectSeq(Split(ip, <<".">>), IsDigitStr) IN
    IF Len(numeric) >= 4 /\ ~IntRaises(numeric[4])
    THEN IntMod(numeric[4], 6)
    ELSE 0

\* C3: after assign_departments_to_logs every record has a unit, the unit is
\* the one at the index the attribution rule gives its client_ip (the first
\* unit when the rule fails), it is one of the six units, and nothing else of
\* the record changed.
C3_UnitAttribution ==
    pc = "select_range" =>
        /\ Len(parsed_logs) = 1
        /\ \A k \in 1..Len(parsed_logs) :
            /\ "department" \in DOMAIN parsed_logs[k]
            /\ parsed_logs[k].department \in Units
            /\ parsed_logs[k].department
                 = get_departments[UnitIndex(parsed_logs[k].client_ip) + 1]
            /\ parsed_logs[k]
                 = WithDepartment(Entry(<<2023, 1, 15>>, parsed_logs[k].client_ip,
                                        Unknown),
                                  parsed_logs[k].department)

\* C3 witness: 10.0.0.7 was attributed to the unit at index 1
C3_Witness ==
    /\ pc = "select_range"
    /\ parsed_logs[1].client_ip = IP7
    /\ parsed_logs[1].department = get_departments[2]

(* ------------------------------ C4 ------------------------------------- *)

\* the whole months from start to end for start <= end: the difference of
\* the month numbers, less one when the day of end is before the day of
\* start (cut to the length of end's month)
WholeMonths(start, end) ==
    LET cut == IF start[3] < DaysInMonth(end[1], end[2])
               THEN start[3] ELSE DaysInMonth(end[1], end[2])
    IN (end[1] - start[1]) * 12 + (end[2] - start[2])
       - (IF end[3] < cut THEN 1 ELSE 0)

\* the granularity of the rule: yearly when the range spans more than 12
\* whole months
Granularity(start, end) ==
    IF DateLE(start, end) /\ WholeMonths(start, end) > 12 THEN "year" ELSE "month"

\* C4: prepare_chart_data resolves the granularity of the rule, and
\* prepare_employee_data resolves the same granularity for the same dates.
C4_Granularity ==
    /\ pc \in {"employee", "done"} => chart_freq = Granularity(start_date, end_date)
    /\ pc = "done" =>
        /\ employee_freq = Granularity(start_date, end_date)
        /\ employee_freq = chart_freq

\* C4 witness: a range of 25 months resolved to yearly by both
C4_Witness ==
    /\ pc = "done"
    /\ start_date = <<2023, 1, 15>>
    /\ end_date = <<2025, 2, 15>>
    /\ WholeMonths(start_date, end_date) = 25
    /\ chart_freq = "year"
    /\ employee_freq = "year"

(* ------------------------------ C10 ------------------------------------ *)

\* the k-th month from the month of start
MonthAt(start, k) ==
    LET t == start[1] * 12 + (start[2] - 1) + (k - 1) IN <<t \div 12, (t % 12) + 1>>

\* C10: for start_date <= end_date get_month_range returns the months from
\* the month of start_date through the month of end_date, one after the
\* other; the month of every date of the range is among them; and for
\* start_date = end_date it is that one month.
C10_MonthRange ==
    (pc # "month_range" /\ DateLE(start_date, end_date)) =>
        LET n == (end_date[1] - start_date[1]) * 12
                 + (end_date[2] - start_date[2]) + 1
        IN
        /\ all_available_months = [k \in 1..n |-> MonthAt(start_date, k)]
        /\ \A d \in Dates :
              (DateLE(start_date, d) /\ DateLE(d, end_date)) =>
                  \E k \in 1..Len(all_available_months) :
                      all_available_months[k] = <<d[1], d[2]>>
        /\ start_date = end_date =>
              all_available_months = << <<start_date[1], start_date[2]>> >>

\* C10 witness: a range over the turn of the year
C10_Witness ==
    /\ pc = "done"
    /\ start_date = <<2023, 11, 15>>
    /\ end_date = <<2024, 2, 1>>
    /\ all_available_months
         = << <<2023, 11>>, <<2023, 12>>, <<2024, 1>>, <<2024, 2>> >>

(* ------------------------------ C7 ------------------------------------- *)

\* C7: for start_date > end_date get_month_range returns the empty list.
C7_InvertedRangeEmpty ==
    (pc # "month_range" /\ DateLT(end_date, start_date)) =>
        all_available_months = <<>>

(* ------------------------------ C5 ------------------------------------- *)

\* the two digits of a month
MonthDigits ==
    <<"01", "02", "03", "04", "05", "06", "07", "08", "09", "10", "11", "12">>

\* the label of the rule for a count of (year, month): year-month in monthly
\* granularity and, in yearly granularity, for the months of end's year up to
\* end's month; the bare year otherwise
Label(year, month, start, end) ==
    IF Granularity(start, end) = "year" /\ ~(year = end[1] /\ month <= end[2])
    THEN ToString(year)
    ELSE ToString(year) \o "-" \o MonthDigits[month]

\* C5: the count of a record dated (year, month) is labelled by the rule, in
\* the rows of prepare_chart_data and in the rows of prepare_employee_data.
C5_Labels ==
    LET log == filtered_logs[1]
        label == Label(log.date[1], log.date[2], start_date, end_date)
    IN
    /\ pc \in {"employee", "done"} =>
          chart_df = <<[key |-> log.department, Period |-> label, Visits |-> 1]>>
    /\ pc = "done" =>
          employee_df = <<[key |-> log.fullname, Period |-> label, Visits |-> 1]>>

\* C5 witness: yearly granularity, a count of end_date's year in a month after
\* end_date's month, labelled by both projections with the bare year
C5_Witness ==
    /\ pc = "done"
    /\ chart_freq = "year"
    /\ filtered_logs[1].date[1] = end_date[1]
    /\ filtered_logs[1].date[2] > end_date[2]
    /\ chart_df[1].Period = ToString(end_date[1])
    /\ employee_df[1].Period = ToString(end_date[1])

(* ------------------------------ C6 ------------------------------------- *)

\* the sum of the counts of the months of a row that the rule labels with label
RECURSIVE SumLabelled(_, _, _, _)
SumLabelled(months, label, start, end) ==
    IF months = <<>> THEN 0
    ELSE (IF Label(Head(months)[1][1], Head(months)[1][2], start, end) = label
          THEN Head(months)[2] ELSE 0)
         + SumLabelled(Tail(months), label, start, end)

\* the sum of the visits of the rows of a key
RECURSIVE SumVisits(_, _)
SumVisits(rows, key) ==
    IF rows = <<>> THEN 0
    ELSE (IF Head(rows).key = key THEN Head(rows).Visits ELSE 0)
         + SumVisits(Tail(rows), key)

\* rows is the projection of matrix: for every row key one entry per label,
\* with the sum of the counts of the months of that label, and nothing else
Projects(rows, matrix, start, end) ==
    /\ \A i, j \in 1..Len(rows) :
          (rows[i].key = rows[j].key /\ rows[i].Period = rows[j].Period) => i = j
    /\ \A i \in 1..Len(rows) :
          /\ DictHas(matrix, rows[i].key)
          /\ rows[i].Visits
               = SumLabelled(DictGet(matrix, rows[i].key, <<>>).months,
                             rows[i].Period, start, end)
    /\ \A k \in 1..Len(matrix) :
          SumVisits(rows, matrix[k][1]) = matrix[k][2].total

\* C6: the rows of prepare_chart_data are the projection of the unit matrix,
\* and the rows of prepare_employee_data the projection of the employee matrix.
C6_Projection ==
    pc = "done" =>
        IF selected_dept = AllDepartments
        THEN Projects(chart_df, dept_matrix, start_date, end_date)
        ELSE employee_matrix # <<>> =>
                 Projects(employee_df, employee_matrix, start_date, end_date)

(* ------------------------------ C1 ------------------------------------- *)

\* the number of raw lines that parse_log_entry parses and whose date is in
\* the range
ParsedInRange ==
    Cardinality({j \in 1..Len(raw_logs) :
        LET entry == parse_log_entry(raw_logs[j]) IN
        /\ entry # None
        /\ DateLE(start_date, DateOf(entry.timestamp))
        /\ DateLE(DateOf(entry.timestamp), end_date)})

\* C1: while dept_matrix is filled every unit's month counts sum to its total
\* and the totals sum to the number of records counted so far; after the
\* loop the totals sum to the number of parsed records in the range.
C1_SumLaw ==
    /\ pc \in {"aggregate", "selectbox", "done"} =>
        /\ \A k \in 1..Len(dept_matrix) :
              SumValues(dept_matrix[k][2].months) = dept_matrix[k][2].total
        /\ SumTotals(dept_matrix) = idx - 1
    /\ pc \in {"selectbox", "done"} => SumTotals(dept_matrix) = ParsedInRange

\* C1 witness: three parsed records, two of them in the range and counted for
\* two different units
C1_Witness ==
    /\ pc = "selectbox"
    /\ Len(parsed_logs) = 3
    /\ SumTotals(dept_matrix) = 2
    /\ DictGet(dept_matrix, get_departments[2], <<>>).total = 1
    /\ DictGet(dept_matrix, get_departments[3], <<>>).total = 1

(* ------------------------------ C9 ------------------------------------- *)

\* C9: from the start of the aggregation on, the rows of dept_matrix are the
\* six units, each once; a unit with no record in the range has total 0 and no
\* counts; with no lines at all the employee matrix is empty.
C9_UnitCoverage ==
    /\ pc \in {"aggregate", "selectbox", "done"} =>
        /\ DictKeys(dept_matrix) = Units
        /\ Len(dept_matrix) = 6
        /\ \A k \in 1..Len(dept_matrix) :
              (\A j \in 1..Len(filtered_logs) :
                   filtered_logs[j].department # dept_matrix[k][1])
              => dept_matrix[k][2] = [total |-> 0, months |-> <<>>]
    /\ raw_logs = <<>> => employee_matrix = <<>>

\* C9 witness: the aggregation is over, one unit has visits and the others
\* are present with total 0
C9_Witness ==
    /\ pc = "done"
    /\ raw_logs # <<>>
    /\ \E k \in 1..Len(dept_matrix) : dept_matrix[k][2].total > 0
    /\ Cardinality({k \in 1..Len(dept_matrix) : dept_matrix[k][2].total = 0}) = 5

(* ------------------------------ C8 ------------------------------------- *)

\* the records of the selected unit in the range
SelectedLogs ==
    SelectSeq(filtered_logs, LAMBDA log : log.department = selected_dept)

\* C8: once a unit is selected, employee_matrix has a row for exactly the
\* names of the unit's records in the range other than 'unknown', each once;
\* every row's total is at least 1 and the sum of its month counts; and the
\* totals sum to the unit's total less its records named 'unknown'.
C8_EmployeeMatrix ==
    (pc = "done" /\ selected_dept # AllDepartments) =>
        /\ DictKeys(employee_matrix)
             = {SelectedLogs[j].fullname : j \in 1..Len(SelectedLogs)} \ {Unknown}
        /\ DistinctKeys(employee_matrix)
        /\ \A k \in 1..Len(employee_matrix) :
              /\ employee_matrix[k][2].total >= 1
              /\ employee_matrix[k][2].total = SumValues(employee_matrix[k][2].months)
        /\ SumTotals(employee_matrix)
             = DictGet(dept_matrix, selected_dept, <<>>).total
               - Cardinality({j \in 1..Len(SelectedLogs) :
                                 SelectedLogs[j].fullname = Unknown})

\* C8 witness: the selected unit has a record of an employee and a record with
\* no name
C8_Witness ==
    /\ pc = "done"
    /\ selected_dept = get_departments[2]
    /\ DictGet(dept_matrix, selected_dept, <<>>).total = 3
    /\ SumTotals(employee_matrix) = 2
    /\ DictHas(employee_matrix, <<"Ivanov">>)

(* ------------------------------ C2 ------------------------------------- *)

\* text is one or two digits (or exactly width digits) of a number in lo..hi
IsNumber(text, widths, lo, hi) ==
    /\ Len(text) \in widths
    /\ \A k \in 1..Len(text) : text[k] \in DOMAIN DigitVal
    /\ IntOf(text) \in lo..hi

\* the words between the whitespace of a text
Words(text) ==
    LET blanked == [k \in 1..Len(text) |->
                       IF text[k] \in Whitespace THEN " " ELSE text[k]]
    IN SelectSeq(Split(blanked, <<" ">>), LAMBDA w : w # <<>>)

\* text is "<day> <hour>": a day and an hour with whitespace between them, the
\* day possibly a single digit after one space
IsDayHour(text) ==
    LET w == Words(text) IN
    /\ Len(w) = 2
    /\ text[Len(text)] \notin Whitespace
    /\ IsNumber(w[1], {1, 2}, 1, 31)
    /\ IsNumber(w[2], {1, 2}, 0, 23)
    /\ \/ text[1] \notin Whitespace
       \/ text[1] = " " /\ text[2] \notin Whitespace /\ Len(w[1]) = 1

\* text reads as a timestamp year-month-day hour:minute:second of a date that
\* exists (the fields of four and of one or two digits)
IsTimestamp(text) ==
    LET p == Split(text, <<"-">>) IN
    /\ Len(p) = 3
    /\ IsNumber(p[1], {4}, 1, 9999)
    /\ IsNumber(p[2], {1, 2}, 1, 12)
    /\ LET q == Split(p[3], <<":">>) IN
       /\ Len(q) = 3
       /\ IsDayHour(q[1])
       /\ IsNumber(q[2], {1, 2}, 0, 59)
       /\ IsNumber(q[3], {1, 2}, 0, 59)
       /\ IntOf(Words(q[1])[1]) <= DaysInMonth(IntOf(p[1]), IntOf(p[2]))

\* the calendar date a timestamp text shows
DateShown(text) ==
    LET p == Split(text, <<"-">>) IN
    <<IntOf(p[1]), IntOf(p[2]), IntOf(Words(Split(p[3], <<":">>)[1])[1])>>

\* the part of a line before the separator " - " and before the first comma
TimeText(line) == Split(SplitOnce(line, <<" ", "-", " ">>)[1], <<",">>)[1]

\* a line has the separator and a timestamp before it
HasStampAndSeparator(line) ==
    /\ Contains(line, <<" ", "-", " ">>)
    /\ IsTimestamp(TimeText(line))

\* a line without the whitespace around it and without the markers (' and ')
Unwrapped(line) ==
    Replace(Replace(Strip(line, Whitespace), <<"(", "'">>), <<"'", ")">>)

\* the lines process_logs has gone through
Processed ==
    IF pc = "process_logs" THEN Slice(raw_logs, 1, idx - 1) ELSE raw_logs

\* C2 as stated: the lines process_logs has gone through that lack the
\* separator or a timestamp before it gave no record, and parsed_logs holds one
\* record for each of the others, in their order, dated as the timestamp shows.
C2_RawLines ==
    LET good == SelectSeq(Processed, HasStampAndSeparator) IN
    /\ \A j \in 1..Len(Processed) :
          ~HasStampAndSeparator(Processed[j]) => parse_log_entry(Processed[j]) = None
    /\ Len(parsed_logs) = Len(good)
    /\ \A j \in 1..Len(good) :
          j <= Len(parsed_logs) =>
              parsed_logs[j].date = DateShown(TimeText(good[j]))

\* C2 amended: the same of the lines as they are without the whitespace around
\* them and without the markers (' and ').
C2_UnwrappedLines ==
    LET WellFormed(line) == HasStampAndSeparator(Unwrapped(line))
        good == SelectSeq(Processed, WellFormed)
    IN
    /\ \A j \in 1..Len(Processed) :
          ~WellFormed(Processed[j]) => parse_log_entry(Processed[j]) = None
    /\ Len(parsed_logs) = Len(good)
    /\ \A j \in 1..Len(good) :
          /\ parsed_logs[j] = WithDate(parse_log_entry(good[j]))
          /\ parsed_logs[j].date = DateShown(TimeText(Unwrapped(good[j])))

\* C2 witness: of two lines the first has a date that does not exist and gave
\* no record, the second is wrapped in (' ') and gave the only record
C2_Witness ==
    /\ pc = "assign_departments"
    /\ Len(raw_logs) = 2
    /\ ~HasStampAndSeparator(Unwrapped(raw_logs[1]))
    /\ TimeText(raw_logs[1]) = Stamp(<<2023, 2, 30>>)
    /\ raw_logs[2][1] = "("
    /\ Len(parsed_logs) = 1
    /\ parsed_logs[1].fullname = <<"Petrov">>

====
